---- MODULE Spec2Model ----
(***************************************************************************)
(* Crawl orchestration core of the Reddit module: the per-strategy        *)
(* pagination loop (crawl_with_strategy), the multi-strategy fan-out,     *)
(* merge, sort and truncation (search_filtered_hot_posts, "run_crawl" in  *)
(* the specification) and the Redis-backed result cache (RedisClient).    *)
(***************************************************************************)
EXTENDS Integers, Sequences, FiniteSets, TLC

(***************************************************************************)
(* Bounds of the model.                                                    *)
(***************************************************************************)
\* largest limit a query asks for
MaxLimit == 2
\* largest number of raw items the source puts in one page
MaxPageLen == 2
\* number of run_crawl calls in one behaviour
MaxCalls == 2
\* number of clock ticks in one behaviour
MaxTicks == 2
\* pages the source holds for one strategy in the orchestrator runs; once they
\* are served the listing is exhausted and every further page is empty
MaxSourcePages == 1
\* set_cache calls of the cache clients in one behaviour
MaxPuts == 2
\* raw items of the page whose scan is followed item by item
MaxScanLen == 3
\* UI sessions that call run_crawl at the same time, and the calls of each
MaxSessions == 2
MaxSessionCalls == 2
\* threads that call RedisClient(), and the calls each of them makes
MaxThreads == 3
MaxClientCalls == 2

(***************************************************************************)
(* Program constants.                                                      *)
(***************************************************************************)
REDIS_EXPIRE_SECONDS == 3600
SecondsPerDay == 86400
MaxPerRequest == 100
MaxWorkers == 3

\* the clock advances in steps of half a TTL
TickSeconds == REDIS_EXPIRE_SECONDS \div 2
\* the clock value of the initial state
T0 == 40 * SecondsPerDay

(***************************************************************************)
(* Inputs: queries, and the raw items the content source may return.      *)
(***************************************************************************)
\* a Python str is the sequence of its characters
Subreddits == { <<"p", "y">> }
Days == {1, 7, 14, 30}
Thresholds == {50, 51}
Limits == 0..MaxLimit

Queries ==
  [subreddit_name : Subreddits, time_range_days : Days,
   min_upvotes : Thresholds, limit : Limits]

\* one day before T0: on the cutoff of a 1-day query started at T0, inside the
\* longer windows
Recent == T0 - SecondsPerDay
\* 31 days before T0: outside every window
Old == T0 - 31 * SecondsPerDay

RawPost(id, created_utc, score) == [id |-> id, created_utc |-> created_utc, score |-> score]

\* what the source may return: two ids, one of them with two scores; scores
\* below, on and above the thresholds; creation times inside and outside the window
RawPosts ==
  { RawPost("p1", Recent, 50), RawPost("p1", Recent, 51), RawPost("p2", Recent, 51),
    RawPost("p2", Recent, 49), RawPost("p1", Old, 51), RawPost("p2", Old, 50) }

RECURSIVE SeqsUpTo(_, _)
SeqsUpTo(S, n) ==
  IF n <= 0 THEN {<<>>}
  ELSE LET shorter == SeqsUpTo(S, n - 1)
       IN  shorter \cup {Append(s, x) : s \in {t \in shorter : Len(t) = n - 1}, x \in S}

PagesOfLength == [n \in 0..MaxPageLen |-> SeqsUpTo(RawPosts, n)]

\* the pages a listing call with limit=current_limit may return
Pages(current_limit) ==
  PagesOfLength[IF current_limit < MaxPageLen THEN current_limit ELSE MaxPageLen]

Min(a, b) == IF a <= b THEN a ELSE b

\* Python's None, and a Python list
NoneVal == [type |-> "NoneType"]

PyList(items) == [type |-> "list", items |-> items]

(***************************************************************************)
(* crawl_with_strategy: one strategy's pagination loop.                   *)
(***************************************************************************)
\* the caps of the two filter regimes the wrong way round
max_iterations_swapped(min_upvotes) == IF min_upvotes <= 50 THEN 30 ELSE 60

max_iterations(min_upvotes) == IF min_upvotes <= 50 THEN 60 ELSE 30

max_no_valid(min_upvotes) == IF min_upvotes <= 50 THEN 6 ELSE 5

\* the delays of the two filter regimes the wrong way round
sleep_time_swapped(min_upvotes) == IF min_upvotes <= 50 THEN 12 ELSE 7

\* the rate-limit delay in tenths of a second
sleep_time(min_upvotes) == IF min_upvotes <= 50 THEN 7 ELSE 12

\* the structured post: the fields the orchestrator reads
PostData(post) ==
  [id |-> post.id, score |-> post.score, created_utc |-> post.created_utc]

\* the date check left out
InWindow_unchecked(post, cutoff_date) == TRUE

InWindow(post, cutoff_date) == post.created_utc >= cutoff_date

\* the score compared with the default threshold instead of the query's
PassesScore_default(post, min_upvotes) == post.score >= 50

PassesScore(post, min_upvotes) == post.score >= min_upvotes

\* a page counted as valid only when one of its posts is collected
RECURSIVE ScanPosts_valid_on_pass(_, _, _, _, _, _, _)
ScanPosts_valid_on_pass(posts, k, batch, has_valid, oldest, cutoff_date, min_upvotes) ==
  IF k > Len(posts)
  THEN [batch_posts |-> batch, batch_has_valid |-> has_valid]
  ELSE LET post == posts[k]
           batch_oldest == IF oldest = <<>> THEN post.created_utc
                           ELSE Min(oldest[1], post.created_utc)
       IN  IF InWindow(post, cutoff_date)
           THEN IF PassesScore(post, min_upvotes)
                THEN ScanPosts_valid_on_pass(posts, k + 1, Append(batch, PostData(post)),
                                             TRUE, <<batch_oldest>>, cutoff_date,
                                             min_upvotes)
                ELSE ScanPosts_valid_on_pass(posts, k + 1, batch, has_valid,
                                             <<batch_oldest>>, cutoff_date, min_upvotes)
           ELSE IF batch_oldest < cutoff_date
                THEN [batch_posts |-> batch, batch_has_valid |-> has_valid]
                ELSE ScanPosts_valid_on_pass(posts, k + 1, batch, has_valid,
                                             <<batch_oldest>>, cutoff_date, min_upvotes)

\* the scan of one page, from item k on: the posts collected, whether the page
\* had an in-window item; oldest is <<>> (None) or <<the oldest creation time seen>>
RECURSIVE ScanPosts(_, _, _, _, _, _, _)
ScanPosts(posts, k, batch, has_valid, oldest, cutoff_date, min_upvotes) ==
  IF k > Len(posts)
  THEN [batch_posts |-> batch, batch_has_valid |-> has_valid]
  ELSE LET post == posts[k]
           batch_oldest == IF oldest = <<>> THEN post.created_utc
                           ELSE Min(oldest[1], post.created_utc)
       IN  IF InWindow(post, cutoff_date)
           THEN ScanPosts(posts, k + 1,
                          IF PassesScore(post, min_upvotes)
                          THEN Append(batch, PostData(post)) ELSE batch,
                          TRUE, <<batch_oldest>>, cutoff_date, min_upvotes)
           ELSE IF batch_oldest < cutoff_date
                THEN [batch_posts |-> batch, batch_has_valid |-> has_valid]
                ELSE ScanPosts(posts, k + 1, batch, has_valid, <<batch_oldest>>,
                               cutoff_date, min_upvotes)

\* the early exit tested on the oldest time of the items before this one
ScanItem_stale_oldest(sc) ==
  LET post == sc.posts[sc.k + 1]
      batch_oldest == IF sc.batch_oldest = <<>> THEN post.created_utc
                      ELSE Min(sc.batch_oldest[1], post.created_utc)
  IN  IF InWindow(post, sc.cutoff_date)
      THEN [sc EXCEPT !.k = @ + 1,
                      !.batch_oldest = <<batch_oldest>>,
                      !.batch_posts = IF PassesScore(post, sc.min_upvotes)
                                      THEN Append(@, PostData(post)) ELSE @,
                      !.batch_has_valid = TRUE]
      ELSE [sc EXCEPT !.k = @ + 1,
                      !.batch_oldest = <<batch_oldest>>,
                      !.broke = sc.batch_oldest # <<>> /\ sc.batch_oldest[1] < sc.cutoff_date]

\* lines 73-107: the body of the for loop for the item behind the k scanned
\* so far; broke says that the loop was left at line 107
ScanItem(sc) ==
  LET post == sc.posts[sc.k + 1]
      batch_oldest == IF sc.batch_oldest = <<>> THEN post.created_utc
                      ELSE Min(sc.batch_oldest[1], post.created_utc)
  IN  IF InWindow(post, sc.cutoff_date)
      THEN [sc EXCEPT !.k = @ + 1,
                      !.batch_oldest = <<batch_oldest>>,
                      !.batch_posts = IF PassesScore(post, sc.min_upvotes)
                                      THEN Append(@, PostData(post)) ELSE @,
                      !.batch_has_valid = TRUE]
      ELSE [sc EXCEPT !.k = @ + 1,
                      !.batch_oldest = <<batch_oldest>>,
                      !.broke = batch_oldest < sc.cutoff_date]

\* the streak compared with <= instead of <
LoopGuard_late(s, min_upvotes, limit) ==
  /\ Len(s.batch_posts) < limit
  /\ s.safety_counter < max_iterations(min_upvotes)
  /\ s.no_valid_count <= max_no_valid(min_upvotes)

LoopGuard(s, min_upvotes, limit) ==
  /\ Len(s.batch_posts) < limit
  /\ s.safety_counter < max_iterations(min_upvotes)
  /\ s.no_valid_count < max_no_valid(min_upvotes)

\* the request for all that is missing, without the cap of the API
CurrentLimit_unclamped(s, limit) == limit - Len(s.batch_posts)

\* line 48
CurrentLimit(s, limit) == Min(MaxPerRequest, limit - Len(s.batch_posts))

\* an empty or failed page that leaves the streak as it was
IterationResult_uncounted(s, posts, cutoff_date, min_upvotes, limit) ==
  IF posts = <<>>
  THEN [s EXCEPT !.safety_counter = @ + 1,
                 !.current_limit = CurrentLimit(s, limit),
                 !.sleeps = @ + 1, !.slept = @ + sleep_time(min_upvotes)]
  ELSE LET scan == ScanPosts(posts, 1, s.batch_posts, FALSE, <<>>,
                             cutoff_date, min_upvotes)
       IN  [s EXCEPT !.safety_counter = @ + 1,
                     !.current_limit = CurrentLimit(s, limit),
                     !.batch_posts = scan.batch_posts,
                     !.no_valid_count = IF scan.batch_has_valid THEN 0 ELSE @ + 1,
                     !.after = posts[Len(posts)].id,
                     !.sleeps = @ + 1, !.slept = @ + sleep_time(min_upvotes)]

\* an empty or failed page that sends the crawler back to the first page
IterationResult_cursor_reset(s, posts, cutoff_date, min_upvotes, limit) ==
  IF posts = <<>>
  THEN [s EXCEPT !.safety_counter = @ + 1,
                 !.current_limit = CurrentLimit(s, limit),
                 !.no_valid_count = @ + 1,
                 !.after = "None",
                 !.sleeps = @ + 1, !.slept = @ + sleep_time(min_upvotes)]
  ELSE LET scan == ScanPosts(posts, 1, s.batch_posts, FALSE, <<>>,
                             cutoff_date, min_upvotes)
       IN  [s EXCEPT !.safety_counter = @ + 1,
                     !.current_limit = CurrentLimit(s, limit),
                     !.batch_posts = scan.batch_posts,
                     !.no_valid_count = IF scan.batch_has_valid THEN 0 ELSE @ + 1,
                     !.after = posts[Len(posts)].id,
                     !.sleeps = @ + 1, !.slept = @ + sleep_time(min_upvotes)]

\* lines 46-119: the locals after one iteration whose fetch returned posts (the
\* empty sequence when the API call raised), and the delays it slept
IterationResult(s, posts, cutoff_date, min_upvotes, limit) ==
  IF posts = <<>>
  THEN [s EXCEPT !.safety_counter = @ + 1,
                 !.current_limit = CurrentLimit(s, limit),
                 !.no_valid_count = @ + 1,
                 !.sleeps = @ + 1, !.slept = @ + sleep_time(min_upvotes)]
  ELSE LET scan == ScanPosts(posts, 1, s.batch_posts, FALSE, <<>>,
                             cutoff_date, min_upvotes)
       IN  [s EXCEPT !.safety_counter = @ + 1,
                     !.current_limit = CurrentLimit(s, limit),
                     !.batch_posts = scan.batch_posts,
                     !.no_valid_count = IF scan.batch_has_valid THEN 0 ELSE @ + 1,
                     !.after = posts[Len(posts)].id,
                     !.sleeps = @ + 1, !.slept = @ + sleep_time(min_upvotes)]

\* what the source did in a fetch: it raised or returned a page; the token of
\* the page's last raw item; whether the page held an in-window item, and
\* whether it held one before its first out-of-window item
Observed(posts, raised, cutoff_date) ==
  [fetch |-> IF raised THEN "raised" ELSE IF posts = <<>> THEN "empty" ELSE "page",
   tail |-> IF posts = <<>> THEN "None" ELSE posts[Len(posts)].id,
   any_in_window |-> \E k \in 1..Len(posts) : InWindow(posts[k], cutoff_date),
   lead_in_window |-> \E k \in 1..Len(posts) :
                        \A j \in 1..k : InWindow(posts[j], cutoff_date)]

\* one iteration, with the record of what the source did: the number of page
\* fetches, whether every page so far was empty, failed or without an
\* in-window item, whether every fetch so far raised, and the last fetch
Iteration(s, posts, raised, cutoff_date, min_upvotes, limit) ==
  [IterationResult(s, posts, cutoff_date, min_upvotes, limit) EXCEPT
     !.fetches = @ + 1,
     !.only_invalid = @ /\ \A k \in 1..Len(posts) : ~InWindow(posts[k], cutoff_date),
     !.all_raised = @ /\ raised,
     !.last = Observed(posts, raised, cutoff_date)]

\* lines 45-121 against a listing that holds the pages of script and is empty
\* after them; a page is cut to the limit the request asks for
RECURSIVE CrawlLoop(_, _, _, _, _)
CrawlLoop(s, script, cutoff_date, min_upvotes, limit) ==
  IF ~LoopGuard(s, min_upvotes, limit) THEN s
  ELSE LET page == IF script = <<>> THEN <<>> ELSE Head(script)
           posts == SubSeq(page, 1, Min(Len(page), CurrentLimit(s, limit)))
       IN  CrawlLoop(IterationResult(s, posts, cutoff_date, min_upvotes, limit),
                     IF script = <<>> THEN <<>> ELSE Tail(script),
                     cutoff_date, min_upvotes, limit)

\* lines 45-121 against a source that rejects every listing call (the target
\* does not exist, the credentials are refused): each call raises
RECURSIVE RejectedCrawl(_, _, _, _)
RejectedCrawl(s, cutoff_date, min_upvotes, limit) ==
  IF ~LoopGuard(s, min_upvotes, limit) THEN s
  ELSE RejectedCrawl(IterationResult(s, <<>>, cutoff_date, min_upvotes, limit),
                     cutoff_date, min_upvotes, limit)

(***************************************************************************)
(* search_filtered_hot_posts: strategy selection, merge, sort, truncation. *)
(***************************************************************************)
\* the 7-day window missing from the table of the top listings
SelectStrategies_no_week(time_range_days) ==
  IF time_range_days = 30
  THEN << <<"top", "month">>, <<"hot", "null">>, <<"new", "null">> >>
  ELSE IF time_range_days \in {1}
       THEN << <<"top", "day">> >>
       ELSE << <<"new", "null">> >>

SelectStrategies(time_range_days) ==
  IF time_range_days = 30
  THEN << <<"top", "month">>, <<"hot", "null">>, <<"new", "null">> >>
  ELSE IF time_range_days \in {1, 7}
       THEN << <<"top", IF time_range_days = 1 THEN "day" ELSE "week">> >>
       ELSE << <<"new", "null">> >>

CutoffDate(t, time_range_days) == t - time_range_days * SecondsPerDay

HasId(posts, id) == \E k \in 1..Len(posts) : posts[k].id = id

\* a later copy of an id put in the place of the one merged before
RECURSIVE MergeBatch_last_wins(_, _)
MergeBatch_last_wins(all_posts, batch_posts) ==
  IF batch_posts = <<>> THEN all_posts
  ELSE LET post == Head(batch_posts)
       IN  MergeBatch_last_wins(
             IF HasId(all_posts, post.id)
             THEN [k \in 1..Len(all_posts) |->
                     IF all_posts[k].id = post.id THEN post ELSE all_posts[k]]
             ELSE Append(all_posts, post),
             Tail(batch_posts))

\* lines 189-191: first occurrence of an id wins
RECURSIVE MergeBatch(_, _)
MergeBatch(all_posts, batch_posts) ==
  IF batch_posts = <<>> THEN all_posts
  ELSE LET post == Head(batch_posts)
       IN  MergeBatch(IF HasId(all_posts, post.id) THEN all_posts
                      ELSE Append(all_posts, post),
                      Tail(batch_posts))

\* the merged posts left in arrival order
SortByScore_arrival(posts) == posts

\* sorted(..., key=score, reverse=True): stable, equal scores keep their order
RECURSIVE InsertByScore(_, _)
InsertByScore(sorted, post) ==
  IF sorted = <<>> THEN <<post>>
  ELSE IF Head(sorted).score >= post.score
       THEN <<Head(sorted)>> \o InsertByScore(Tail(sorted), post)
       ELSE <<post>> \o sorted

RECURSIVE SortByScore(_)
SortByScore(posts) ==
  IF posts = <<>> THEN <<>>
  ELSE InsertByScore(SortByScore(SubSeq(posts, 1, Len(posts) - 1)), posts[Len(posts)])

\* the truncation left out
Truncate_none(posts, limit) == posts

Truncate(posts, limit) ==
  IF Len(posts) > limit THEN SubSeq(posts, 1, limit) ELSE posts

CandidatePosts(all_posts, limit) == Truncate(SortByScore(all_posts), limit)

\* str(n) of an int, as the f-string formats it
Digit(d) == <<"0", "1", "2", "3", "4", "5", "6", "7", "8", "9">>[d + 1]

RECURSIVE Digits(_)
Digits(n) == IF n < 10 THEN <<Digit(n)>> ELSE Digits(n \div 10) \o <<Digit(n % 10)>>

Str(n) == IF n < 0 THEN <<"-">> \o Digits(-n) ELSE Digits(n)

\* the key without its last field
KeyFormat_no_limit(platform, target, days, threshold, limit) ==
  platform \o <<":">> \o target \o <<":">> \o Str(days) \o <<":">> \o Str(threshold)

\* f"{platform}:{target}:{days}:{threshold}:{limit}", lines 144 and 97
KeyFormat(platform, target, days, threshold, limit) ==
  platform \o <<":">> \o target \o <<":">> \o Str(days) \o <<":">> \o Str(threshold)
           \o <<":">> \o Str(limit)

CacheKey(q) ==
  KeyFormat(<<"r", "e", "d", "d", "i", "t">>, q.subreddit_name, q.time_range_days,
            q.min_upvotes, q.limit)

\* search_youtube_videos builds its key the same way
YoutubeCacheKey(q) ==
  KeyFormat(<<"y", "o", "u", "t", "u", "b", "e">>, q.query, q.days, q.min_views, q.limit)

CacheKeys == {CacheKey(q) : q \in Queries}

(***************************************************************************)
(* RedisClient: JSON text in, JSON text out, entries with a TTL.          *)
(***************************************************************************)
\* json.dumps of a list: its text, as the sequence of its tokens
RECURSIVE JsonElements(_)
JsonElements(data) ==
  IF data = <<>> THEN <<>>
  ELSE IF Len(data) = 1 THEN << [tok |-> "object", val |-> data[1]] >>
  ELSE << [tok |-> "object", val |-> data[1]], [tok |-> ","] >> \o JsonElements(Tail(data))

JsonDumps(data) ==
  [type |-> "str",
   text |-> << [tok |-> "["] >> \o JsonElements(data.items) \o << [tok |-> "]"] >>]

\* json.loads of the text of a list
JsonLoads(str) ==
  LET inner == SubSeq(str.text, 2, Len(str.text) - 1)
      objects == SelectSeq(inner, LAMBDA t : t.tok = "object")
  IN  PyList([k \in 1..Len(objects) |-> objects[k].val])

\* client.get: the live entry's text, None for a missing or expired key
RedisGet(store, key, t) ==
  IF store[key] = NoneVal \/ store[key].expires_at <= t THEN NoneVal
  ELSE store[key].data

\* an empty stored list taken for a missing key
GetCache_empty_is_absent(store, key, t) ==
  LET data == RedisGet(store, key, t)
  IN  IF data = NoneVal \/ data.text = <<>> \/ JsonLoads(data).items = <<>>
      THEN NoneVal ELSE JsonLoads(data)

\* get_cache, lines 53-61, when the store answers
GetCache(store, key, t) ==
  LET data == RedisGet(store, key, t)
  IN  IF data = NoneVal \/ data.text = <<>> THEN NoneVal ELSE JsonLoads(data)

\* the new items added to the list the entry holds
SetCache_extend(store, key, data, t) ==
  [store EXCEPT ![key] =
     [type |-> "entry",
      data |-> JsonDumps(PyList((IF store[key] = NoneVal THEN <<>>
                                 ELSE JsonLoads(store[key].data).items) \o data.items)),
      expires_at |-> t + REDIS_EXPIRE_SECONDS]]

\* the entry stored without the ex= argument: it does not expire in any run
SetCache_no_expiry(store, key, data, t) ==
  [store EXCEPT ![key] = [type |-> "entry", data |-> JsonDumps(data),
                          expires_at |-> t + 1000 * REDIS_EXPIRE_SECONDS]]

\* set_cache, lines 34-38, when the store answers
SetCache(store, key, data, t) ==
  [store EXCEPT ![key] = [type |-> "entry", data |-> JsonDumps(data),
                          expires_at |-> t + REDIS_EXPIRE_SECONDS]]

\* delete_cache: client.delete(key)
DeleteCache(store, key) == [store EXCEPT ![key] = NoneVal]

\* the "Clear API Cache" button: client.flushdb()
FlushDb(store) == [k \in DOMAIN store |-> NoneVal]

\* redis drops the entries whose TTL has elapsed
Purge(store, t) ==
  [k \in DOMAIN store |->
     IF store[k] # NoneVal /\ store[k].expires_at <= t THEN NoneVal ELSE store[k]]

\* Python's truth value of what get_cache returned
Truthy(v) == v # NoneVal /\ v.items # <<>>


(***************************************************************************)
(* State.                                                                  *)
(***************************************************************************)
VARIABLES
  now,              \* the clock, in epoch seconds
  cache,            \* the redis store: key -> entry or None
  pc,               \* where run_crawl is: idle, lookup, crawl, join, returned, raised
  query,            \* the arguments of the current call
  cached_data,      \* what get_cache returned to the current call
  cutoff_date,      \* line 155
  strat,            \* the submitted futures, in submission order: each task's
                    \* state and locals
  joined,           \* how many futures the collecting loop has consumed
  all_posts,        \* the deduplicating dict, in insertion order
  candidate_posts,  \* lines 194-199
  result,           \* the value returned to the caller
  failure,          \* what failed in the current call: none, get, reddit, source,
                    \* strategy, set
  errors,           \* st.error calls of the current call
  calls,            \* run_crawl calls made so far
  ticks,            \* clock ticks so far
  collected,        \* record: the ids the tasks of the current call returned
  stored_cutoff,    \* record: per key, the cutoff of the crawl that stored last
  op,               \* record: the last operation of a cache client and its outcome
  shadow,           \* record: per query signature, what its callers did to its entry
  puts,             \* set_cache calls of the cache clients so far
  responses,        \* the pages the source holds for each strategy, when fixed
  workers,          \* threads of the pool that run tasks at the same time
  writes,           \* set_cache calls of the current call that stored
  scan,             \* the for loop over one page: its locals, lines 69-107
  session,          \* the run_crawl calls of the UI sessions, one thread each
  written,          \* record: per key, the values the sessions stored, in order
  threads,          \* the threads inside RedisClient.__new__
  instance,         \* RedisClient._instance
  constructed       \* redis.Redis objects constructed so far

vars ==
  <<now, cache, pc, query, cached_data, cutoff_date, strat, joined, all_posts,
    candidate_posts, result, failure, errors, calls, ticks, collected,
    stored_cutoff, op, shadow, puts, responses, workers, writes, scan, session,
    written, threads, instance, constructed>>

\* the page scan, the UI sessions and the client singleton
sideVars == <<scan, session, written, threads, instance, constructed>>

\* what a step of a UI session leaves alone besides the store
outsideSessions ==
  <<now, pc, query, cached_data, cutoff_date, strat, joined, all_posts,
    candidate_posts, result, failure, errors, calls, ticks, collected,
    stored_cutoff, op, shadow, puts, responses, workers, writes, scan, threads,
    instance, constructed>>

\* what a step inside RedisClient.__new__ leaves alone
outsideSingleton ==
  <<now, cache, pc, query, cached_data, cutoff_date, strat, joined, all_posts,
    candidate_posts, result, failure, errors, calls, ticks, collected,
    stored_cutoff, op, shadow, puts, responses, workers, writes, scan, session,
    written>>

auxVars == <<op, shadow, puts, responses, workers, sideVars>>

orchVars == <<pc, query, cached_data, cutoff_date, joined, all_posts,
              candidate_posts, result, failure, errors, calls, writes>>

NoFetch == [fetch |-> "none", tail |-> "None", any_in_window |-> FALSE, lead_in_window |-> FALSE]

\* the submission of a task, line 180, and its locals, lines 37-42; starts,
\* fetches and only_invalid record what happened to it, rank the place of the
\* task in the order in which the tasks ended
NewTask(strategy) ==
  [state |-> "pending", sort_type |-> strategy[1], time_filter |-> strategy[2],
   batch_posts |-> <<>>, after |-> "None", safety_counter |-> 0,
   no_valid_count |-> 0, current_limit |-> 0, sleeps |-> 0, slept |-> 0,
   starts |-> 0, fetches |-> 0, only_invalid |-> TRUE, all_raised |-> TRUE,
   last |-> NoFetch, rank |-> 0]

NoQuery == [subreddit_name |-> <<>>, time_range_days |-> 0, min_upvotes |-> 0, limit |-> 0]

EmptyCache == [k \in CacheKeys |-> NoneVal]

\* the query signatures of the two search functions: platform tag and fields
Platforms == {"reddit", "youtube"}

SigTargets == { <<"a">>, <<"a", ":", "1">> }

SigDays == {1, 11}

SigThresholds == {1, 50}

SigLimits == {1, 11}

Signatures ==
  [platform : Platforms, target : SigTargets, days : SigDays,
   threshold : SigThresholds, limit : SigLimits]

\* the key the search function of the signature's platform builds
KeyOf(sig) ==
  IF sig.platform = "reddit"
  THEN CacheKey([subreddit_name |-> sig.target, time_range_days |-> sig.days,
                 min_upvotes |-> sig.threshold, limit |-> sig.limit])
  ELSE YoutubeCacheKey([query |-> sig.target, days |-> sig.days,
                        min_views |-> sig.threshold, limit |-> sig.limit])

Signature(platform, target, days, threshold, limit) ==
  [platform |-> platform, target |-> target, days |-> days,
   threshold |-> threshold, limit |-> limit]

\* the signatures the cache clients use: one query, the same with another
\* limit, the same on the other platform, and one whose target holds a ':'
StoredSignatures ==
  { Signature("reddit", <<"a">>, 1, 50, 1), Signature("reddit", <<"a">>, 1, 50, 11),
    Signature("youtube", <<"a">>, 1, 50, 1),
    Signature("reddit", <<"a", ":", "1">>, 1, 50, 1) }

\* the results the clients store: empty, one item, two items
CachedValues ==
  { <<>>, <<PostData(RawPost("p1", Recent, 51))>>,
    <<PostData(RawPost("p2", Recent, 51)), PostData(RawPost("p1", Recent, 50))>> }

NoOp == [name |-> "none", sig |-> NoQuery, value |-> NoneVal, at |-> 0]

NeverPut == [state |-> "never", value |-> <<>>, at |-> 0]

NoShadow == [sig \in StoredSignatures |-> NeverPut]

\* the locals of the for loop before a page is scanned
NoScan ==
  [posts |-> <<>>, cutoff_date |-> 0, min_upvotes |-> 0, prior |-> <<>>, k |-> 0,
   batch_posts |-> <<>>, batch_has_valid |-> FALSE, batch_oldest |-> <<>>,
   broke |-> FALSE]

\* no page is being scanned, no session has called, no client exists
SideIdle ==
  /\ scan = NoScan
  /\ session = <<>>
  /\ written = <<>>
  /\ threads = <<>>
  /\ instance = NoneVal
  /\ constructed = 0

Futures == DOMAIN strat

\* the tasks that have ended so far, by a return or by an exception
EndedTasks == {j \in Futures : strat[j].state \in {"done", "failed", "joined"}}

PostIdsOf(posts) == {posts[k].id : k \in 1..Len(posts)}

\* line 121: the task returns batch_posts; its other locals are gone
Returned(s) ==
  [s EXCEPT !.state = "done", !.after = "None", !.safety_counter = 0,
            !.no_valid_count = 0, !.current_limit = 0, !.sleeps = 0, !.slept = 0,
            !.fetches = 0, !.only_invalid = TRUE, !.all_raised = TRUE,
            !.last = NoFetch]

\* the qualifying posts a listing holds in the step-by-step runs
MaxListed == MaxLimit

ScriptsOfPages == [n \in 0..MaxPageLen |-> SeqsUpTo(PagesOfLength[n], MaxSourcePages)]

\* the listings the source may hold for one strategy of a query with this limit
Scripts(limit) ==
  ScriptsOfPages[IF Min(MaxPerRequest, limit) < MaxPageLen
                 THEN Min(MaxPerRequest, limit) ELSE MaxPageLen]

(***************************************************************************)
(* The strategy tasks (worker threads of the pool), step by step.         *)
(***************************************************************************)
\* a free worker takes the oldest task of the queue and runs lines 37-42
StrategyStart(i) ==
  /\ pc = "join"
  /\ i \in Futures
  /\ strat[i].state = "pending"
  /\ \A j \in 1..(i - 1) : strat[j].state # "pending"
  /\ Cardinality({j \in Futures : strat[j].state = "running"}) < workers
  /\ strat' = [strat EXCEPT ![i].state = "running", ![i].starts = @ + 1]
  /\ UNCHANGED <<now, cache, orchVars, ticks, collected, stored_cutoff, auxVars>>

\* lines 45-119: one pass through the loop body
StrategyIterate(i) ==
  /\ pc = "join"
  /\ i \in Futures
  /\ strat[i].state = "running"
  /\ LoopGuard(strat[i], query.min_upvotes, query.limit)
  /\ \/ \* the API call raises: line 59
        strat' = [strat EXCEPT ![i] =
                    Iteration(@, <<>>, TRUE, cutoff_date, query.min_upvotes,
                              query.limit)]
     \/ \* the listing returns a page of at most current_limit posts; it
        \* holds at most MaxListed posts that qualify
        \E posts \in Pages(CurrentLimit(strat[i], query.limit)) :
          LET next == Iteration(strat[i], posts, FALSE, cutoff_date,
                                query.min_upvotes, query.limit)
          IN  /\ Len(next.batch_posts) <= MaxListed
              /\ strat' = [strat EXCEPT ![i] = next]
  /\ UNCHANGED <<now, cache, orchVars, ticks, collected, stored_cutoff, auxVars>>

\* the answer of the source to the n-th listing call of a task, when the
\* answers are fixed: a raise or a page; the listing is empty after them
Raise == [raised |-> TRUE, posts |-> <<>>]

Page(posts) == [raised |-> FALSE, posts |-> posts]

Response(script, n) == IF n <= Len(script) THEN script[n] ELSE Page(<<>>)

\* lines 45-119 against the fixed answers of the source
StrategyReplay(i) ==
  /\ pc = "join"
  /\ i \in Futures
  /\ strat[i].state = "running"
  /\ LoopGuard(strat[i], query.min_upvotes, query.limit)
  /\ LET r == Response(responses[i], strat[i].fetches + 1)
         posts == SubSeq(r.posts, 1, Min(Len(r.posts), CurrentLimit(strat[i], query.limit)))
     IN  strat' = [strat EXCEPT ![i] =
                     Iteration(@, posts, r.raised, cutoff_date, query.min_upvotes,
                               query.limit)]
  /\ UNCHANGED <<now, cache, orchVars, ticks, collected, stored_cutoff, auxVars>>

\* line 121: the loop condition is false
StrategyReturn(i) ==
  /\ pc = "join"
  /\ i \in Futures
  /\ strat[i].state = "running"
  /\ ~LoopGuard(strat[i], query.min_upvotes, query.limit)
  /\ strat' = [strat EXCEPT ![i] = [Returned(@) EXCEPT
                                      !.rank = Cardinality(EndedTasks) + 1]]
  /\ collected' = collected \cup PostIdsOf(strat[i].batch_posts)
  /\ UNCHANGED <<now, cache, orchVars, ticks, stored_cutoff, auxVars>>

\* the task ends in an exception raised outside the try of the fetch (lines
\* 74-101, the handling of a post); the future holds the exception
StrategyRaise(i) ==
  /\ pc = "join"
  /\ i \in Futures
  /\ strat[i].state = "running"
  /\ strat' = [strat EXCEPT ![i] = [Returned(@) EXCEPT
                                      !.state = "failed", !.batch_posts = <<>>,
                                      !.rank = Cardinality(EndedTasks) + 1]]
  /\ UNCHANGED <<now, cache, orchVars, ticks, collected, stored_cutoff, auxVars>>

\* the times a crawl can start at, and the cutoffs it can have
StartTimes == {T0 + k * TickSeconds : k \in 0..MaxTicks}

Cutoffs == {CutoffDate(t, d) : t \in StartTimes, d \in Days}

\* what a task can return, lines 37-121, over the listings the source may
\* hold: by cutoff, threshold and limit
Outcomes ==
  [c \in Cutoffs |-> [m \in Thresholds |-> [l \in Limits |->
     {CrawlLoop(NewTask(<<"new", "null">>), script, c, m, l).batch_posts :
        script \in Scripts(l)}]]]

\* the same when the source rejects every listing call
RejectedOutcomes ==
  [c \in Cutoffs |-> [m \in Thresholds |-> [l \in Limits |->
     {RejectedCrawl(NewTask(<<"new", "null">>), c, m, l).batch_posts}]]]

\* the whole task at once, lines 37-121: the tasks share nothing, so the
\* orchestrator sees only which of them are done and what each returned
RunStrategy(i) ==
  /\ pc = "join"
  /\ i \in Futures
  /\ strat[i].state = "pending"
  /\ \/ \* the task runs to its return
        \E batch_posts \in
             (IF failure = "source" THEN RejectedOutcomes ELSE Outcomes)
               [cutoff_date][query.min_upvotes][query.limit] :
          /\ strat' = [strat EXCEPT ![i] =
                         [Returned(@) EXCEPT !.starts = 1, !.batch_posts = batch_posts]]
          /\ collected' = collected \cup PostIdsOf(batch_posts)
     \/ \* the task raises outside the try of the fetch
        /\ strat' = [strat EXCEPT ![i] =
                       [Returned(@) EXCEPT !.state = "failed", !.starts = 1]]
        /\ UNCHANGED collected
  /\ UNCHANGED <<now, cache, orchVars, ticks, stored_cutoff, auxVars>>

\* lines 73-107: the for loop takes the next item of the page
ScanStep ==
  /\ scan.k < Len(scan.posts)
  /\ ~scan.broke
  /\ scan' = ScanItem(scan)
  /\ UNCHANGED <<now, cache, orchVars, strat, ticks, collected, stored_cutoff, op,
                 shadow, puts, responses, workers, session, written, threads,
                 instance, constructed>>

(***************************************************************************)
(* run_crawl (search_filtered_hot_posts).                                  *)
(***************************************************************************)
\* the UI calls search_filtered_hot_posts; a behaviour is a query and its
\* repetitions
Call(q) ==
  /\ pc \in {"idle", "returned", "raised"}
  /\ calls < MaxCalls
  /\ calls > 0 => q = query
  /\ pc' = "lookup"
  /\ query' = q
  /\ calls' = calls + 1
  /\ cached_data' = NoneVal
  /\ cutoff_date' = 0
  /\ strat' = <<>>
  /\ joined' = 0
  /\ all_posts' = <<>>
  /\ candidate_posts' = <<>>
  /\ result' = <<>>
  /\ failure' = "none"
  /\ errors' = 0
  /\ writes' = 0
  /\ collected' = {}
  /\ UNCHANGED <<now, cache, ticks, stored_cutoff, auxVars>>

\* lines 144-149: the cache lookup, outside the try block
Lookup ==
  /\ pc = "lookup"
  /\ \/ \* client.get raises (the store is unavailable): nothing catches it
        /\ pc' = "raised"
        /\ failure' = "get"
        /\ UNCHANGED <<cached_data, result>>
     \/ LET data == GetCache(cache, CacheKey(query), now)
        IN  /\ cached_data' = data
            /\ failure' = "none"
            /\ IF Truthy(data)
               THEN pc' = "returned" /\ result' = data.items
               ELSE pc' = "crawl" /\ result' = <<>>
  /\ UNCHANGED <<now, cache, query, cutoff_date, strat, joined, all_posts,
                 candidate_posts, errors, writes, calls, ticks, collected,
                 stored_cutoff, auxVars>>

\* the fields an ended call leaves behind: the futures as they were when the
\* call returned, without the results they held
Ended ==
  /\ strat' = [i \in DOMAIN strat |-> [strat[i] EXCEPT !.batch_posts = <<>>]]
  /\ joined' = 0
  /\ all_posts' = <<>>

\* lines 152-184: the client, the cutoff, the strategies, the submissions
Submit ==
  /\ pc = "crawl"
  /\ \/ \* get_reddit_instance raises: lines 216-218
        /\ pc' = "returned"
        /\ failure' = "reddit"
        /\ errors' = errors + 1
        /\ result' = <<>>
        /\ UNCHANGED <<cutoff_date, strat>>
     \/ \* reddit.subreddit() sends nothing: a target that does not exist and
        \* credentials that are refused show in the listing calls of the tasks
        \E source \in {"none", "source"} :
          LET sort_strategies == SelectStrategies(query.time_range_days)
          IN  /\ cutoff_date' = CutoffDate(now, query.time_range_days)
              /\ strat' = [i \in 1..Len(sort_strategies) |-> NewTask(sort_strategies[i])]
              /\ pc' = "join"
              /\ failure' = source
              /\ UNCHANGED <<errors, result>>
  /\ UNCHANGED <<now, cache, query, cached_data, joined, all_posts,
                 candidate_posts, writes, calls, ticks, collected, stored_cutoff,
                 auxVars>>

\* the pool left without waiting for its tasks
Awaited_nowait(futures) == TRUE

\* line 177, the exit of the with block: executor.shutdown(wait=True) returns
\* when every submitted task has ended
Awaited(futures) ==
  \A i \in DOMAIN futures : futures[i].state \in {"done", "failed", "joined"}

\* the futures taken as they complete
NextFuture_as_completed(futures, consumed) ==
  IF \E i \in DOMAIN futures : futures[i].state \in {"done", "failed"}
  THEN CHOOSE i \in DOMAIN futures : futures[i].state \in {"done", "failed"}
  ELSE consumed + 1

\* line 187: the dict of futures is read in insertion order, which is the
\* order of submission
NextFuture(futures, consumed) == consumed + 1

\* lines 187-191: the next future's result, merged into all_posts; nothing
\* reads that result again
Join ==
  /\ pc = "join"
  /\ joined < Len(strat)
  /\ LET future == NextFuture(strat, joined)
     IN  \/ /\ strat[future].state = "done"
            /\ all_posts' = MergeBatch(all_posts, strat[future].batch_posts)
            /\ joined' = joined + 1
            /\ strat' = [strat EXCEPT ![future].state = "joined",
                                      ![future].batch_posts = <<>>]
            /\ UNCHANGED <<pc, result, failure, errors>>
         \/ \* future.result() raises what the task raised; the with block
            \* waits for the other tasks, then lines 216-218
            /\ strat[future].state = "failed"
            /\ Awaited(strat)
            /\ pc' = "returned"
            /\ failure' = "strategy"
            /\ errors' = errors + 1
            /\ result' = <<>>
            /\ Ended
  /\ UNCHANGED <<now, cache, query, cached_data, cutoff_date, candidate_posts,
                 writes, calls, ticks, collected, stored_cutoff, auxVars>>

\* the except clause storing the empty result it returns
Finish_error_cached ==
  /\ pc = "join"
  /\ joined = Len(strat)
  /\ LET sorted == CandidatePosts(all_posts, query.limit)
     IN  /\ candidate_posts' = sorted
         /\ pc' = "returned"
         /\ \/ /\ cache' = SetCache(cache, CacheKey(query), PyList(sorted), now)
               /\ result' = sorted
               /\ stored_cutoff' = [stored_cutoff EXCEPT ![CacheKey(query)] = cutoff_date]
               /\ writes' = writes + 1
               /\ UNCHANGED <<failure, errors>>
            \/ /\ failure' = "set"
               /\ errors' = errors + 1
               /\ result' = <<>>
               /\ cache' = SetCache(cache, CacheKey(query), PyList(<<>>), now)
               /\ UNCHANGED <<stored_cutoff, writes>>
  /\ Ended
  /\ UNCHANGED <<now, query, cached_data, cutoff_date, calls, ticks, collected,
                 auxVars>>

\* lines 194-218: sort, truncate, store, return; candidate_posts stays as the
\* record of what the crawl had found
Finish ==
  /\ pc = "join"
  /\ joined = Len(strat)
  /\ LET sorted == CandidatePosts(all_posts, query.limit)
     IN  /\ candidate_posts' = sorted
         /\ pc' = "returned"
         /\ \/ \* set_cache stores the result
               /\ cache' = SetCache(cache, CacheKey(query), PyList(sorted), now)
               /\ result' = sorted
               /\ stored_cutoff' = [stored_cutoff EXCEPT ![CacheKey(query)] = cutoff_date]
               /\ writes' = writes + 1
               /\ UNCHANGED <<failure, errors>>
            \/ \* set_cache raises: lines 216-218
               /\ failure' = "set"
               /\ errors' = errors + 1
               /\ result' = <<>>
               /\ UNCHANGED <<cache, stored_cutoff, writes>>
  /\ Ended
  /\ UNCHANGED <<now, query, cached_data, cutoff_date, calls, ticks, collected,
                 auxVars>>

(***************************************************************************)
(* The environment.                                                        *)
(***************************************************************************)
\* time passes; redis expires the entries whose TTL has elapsed. The tasks and
\* the collecting loop do not read the clock, so the time that passes during
\* them is taken once they are through
Tick ==
  /\ ticks < MaxTicks
  /\ pc = "join" => joined = Len(strat)
  /\ ticks' = ticks + 1
  /\ now' = now + TickSeconds
  /\ cache' = Purge(cache, now + TickSeconds)
  /\ UNCHANGED <<orchVars, strat, collected, stored_cutoff, auxVars>>

(***************************************************************************)
(* Specifications.                                                         *)
(***************************************************************************)
\* the orchestrator and the cache: run_crawl calls, each strategy task taken
\* as a whole
Init ==
  /\ now = T0
  /\ cache = EmptyCache
  /\ pc = "idle"
  /\ query = NoQuery
  /\ cached_data = NoneVal
  /\ cutoff_date = 0
  /\ strat = <<>>
  /\ joined = 0
  /\ all_posts = <<>>
  /\ candidate_posts = <<>>
  /\ result = <<>>
  /\ failure = "none"
  /\ errors = 0
  /\ calls = 0
  /\ ticks = 0
  /\ collected = {}
  /\ stored_cutoff = [k \in CacheKeys |-> 0]
  /\ op = NoOp
  /\ shadow = NoShadow
  /\ puts = 0
  /\ responses = <<>>
  /\ workers = MaxWorkers
  /\ writes = 0
  /\ SideIdle

Next ==
  \/ \E q \in Queries : Call(q)
  \/ Lookup
  \/ Submit
  \/ \E i \in 1..MaxWorkers : RunStrategy(i)
  \/ Join
  \/ Finish
  \/ Tick

Spec == Init /\ [][Next]_vars

\* a query that asks for more than one request of the API can hold
BigQuery ==
  [subreddit_name |-> <<"p", "y">>, time_range_days |-> 14, min_upvotes |-> 51,
   limit |-> MaxPerRequest + 1]

\* one strategy crawler, step by step, against every source: the state after
\* the submissions of a single-strategy query
CrawlQueries ==
  {q \in Queries : Len(SelectStrategies(q.time_range_days)) = 1} \cup {BigQuery}

InitCrawl ==
  /\ now = T0
  /\ cache = EmptyCache
  /\ pc = "join"
  /\ query \in CrawlQueries
  /\ cached_data = NoneVal
  /\ cutoff_date = CutoffDate(T0, query.time_range_days)
  /\ strat = [i \in 1..1 |-> NewTask(SelectStrategies(query.time_range_days)[i])]
  /\ joined = 0
  /\ all_posts = <<>>
  /\ candidate_posts = <<>>
  /\ result = <<>>
  /\ failure = "none"
  /\ errors = 0
  /\ calls = 1
  /\ ticks = 0
  /\ collected = {}
  /\ stored_cutoff = [k \in CacheKeys |-> 0]
  /\ op = NoOp
  /\ shadow = NoShadow
  /\ puts = 0
  /\ responses = <<>>
  /\ workers = MaxWorkers
  /\ writes = 0
  /\ SideIdle

NextCrawl ==
  \/ \E i \in 1..MaxWorkers : StrategyStart(i)
  \/ \E i \in 1..MaxWorkers : StrategyIterate(i)
  \/ \E i \in 1..MaxWorkers : StrategyReturn(i)

SpecCrawl == InitCrawl /\ [][NextCrawl]_vars


\* the step-by-step crawler with the threads of the pool scheduled fairly
SpecCrawlFair == SpecCrawl /\ WF_vars(NextCrawl)

\* run_crawl of a 30-day query from its submissions on, the three tasks step
\* by step and interleaved, on a pool of 1, 2 or 3 threads, against answers
\* of the source that are fixed per strategy
ParQueries ==
  {q \in Queries : q.time_range_days = 30 /\ q.min_upvotes = 50 /\ q.limit >= 1}

\* the answers a strategy may get: posts that share an id with another
\* strategy's under another score, posts of equal score, a failed call, a post
\* that two pages of one listing hold under two scores
ParScripts ==
  { << Page(<<RawPost("p1", Recent, 50), RawPost("p2", Recent, 51)>>) >>,
    << Page(<<RawPost("p1", Recent, 51)>>) >>,
    << Page(<<RawPost("p1", Recent, 51)>>), Page(<<RawPost("p1", Recent, 50)>>) >>,
    << Raise, Page(<<RawPost("p2", Old, 50)>>) >> }

InitPar ==
  /\ now = T0
  /\ cache = EmptyCache
  /\ pc = "join"
  /\ query \in ParQueries
  /\ cached_data = NoneVal
  /\ cutoff_date = CutoffDate(T0, query.time_range_days)
  /\ strat = [i \in 1..Len(SelectStrategies(query.time_range_days)) |->
                NewTask(SelectStrategies(query.time_range_days)[i])]
  /\ joined = 0
  /\ all_posts = <<>>
  /\ candidate_posts = <<>>
  /\ result = <<>>
  /\ failure = "none"
  /\ errors = 0
  /\ calls = 1
  /\ ticks = 0
  /\ collected = {}
  /\ stored_cutoff = [k \in CacheKeys |-> 0]
  /\ op = NoOp
  /\ shadow = NoShadow
  /\ puts = 0
  /\ responses \in [1..Len(SelectStrategies(query.time_range_days)) -> ParScripts]
  /\ workers \in 1..MaxWorkers
  /\ writes = 0
  /\ SideIdle

NextPar ==
  \/ \E i \in 1..MaxWorkers : StrategyStart(i)
  \/ \E i \in 1..MaxWorkers : StrategyReplay(i)
  \/ \E i \in 1..MaxWorkers : StrategyReturn(i)
  \/ \E i \in 1..MaxWorkers : StrategyRaise(i)
  \/ Join
  \/ Finish

SpecPar == InitPar /\ [][NextPar]_vars

\* the scan of one page, item by item: a page of up to MaxScanLen raw items,
\* after a crawl that had collected nothing or one post
ScanPages == SeqsUpTo(RawPosts, MaxScanLen)

ScanCutoffs == {CutoffDate(T0, 1), CutoffDate(T0, 30)}

ScanPriors == { <<>>, <<PostData(RawPost("p2", Recent, 51))>> }

InitScan ==
  /\ now = T0
  /\ cache = EmptyCache
  /\ pc = "idle"
  /\ query = NoQuery
  /\ cached_data = NoneVal
  /\ cutoff_date = 0
  /\ strat = <<>>
  /\ joined = 0
  /\ all_posts = <<>>
  /\ candidate_posts = <<>>
  /\ result = <<>>
  /\ failure = "none"
  /\ errors = 0
  /\ calls = 0
  /\ ticks = 0
  /\ collected = {}
  /\ stored_cutoff = [k \in CacheKeys |-> 0]
  /\ op = NoOp
  /\ shadow = NoShadow
  /\ puts = 0
  /\ responses = <<>>
  /\ workers = MaxWorkers
  /\ writes = 0
  /\ \E posts \in ScanPages : \E c \in ScanCutoffs : \E m \in Thresholds :
       \E prior \in ScanPriors :
         scan = [NoScan EXCEPT !.posts = posts, !.cutoff_date = c, !.min_upvotes = m,
                               !.prior = prior, !.batch_posts = prior]
  /\ session = <<>>
  /\ written = <<>>
  /\ threads = <<>>
  /\ instance = NoneVal
  /\ constructed = 0

NextScan == ScanStep

SpecScan == InitScan /\ [][NextScan]_vars

(***************************************************************************)
(* run_crawl called by several UI sessions at once: each session runs     *)
(* search_filtered_hot_posts in its own thread, against the one store.    *)
(***************************************************************************)
\* the queries of the sessions: one, and the same with a stricter threshold
SessionQueries ==
  {q \in Queries : q.time_range_days = 1 /\ q.limit = 1}

SessionKeys == {CacheKey(q) : q \in SessionQueries}

IdleSession ==
  [pc |-> "idle", query |-> NoQuery, cached_data |-> NoneVal,
   candidate_posts |-> <<>>, result |-> <<>>, failure |-> "none", calls |-> 0]

\* what lines 151-211 can leave in candidate_posts for a query whose crawl
\* starts now
CrawlResults(q) ==
  {CandidatePosts(MergeBatch(<<>>, batch_posts), q.limit) :
     batch_posts \in Outcomes[CutoffDate(now, q.time_range_days)][q.min_upvotes][q.limit]}

\* the session calls search_filtered_hot_posts(q)
SessionCall(s, q) ==
  /\ session[s].pc \in {"idle", "returned", "raised"}
  /\ session[s].calls < MaxSessionCalls
  /\ session' = [session EXCEPT ![s] =
                   [IdleSession EXCEPT !.pc = "lookup", !.query = q,
                                       !.calls = session[s].calls + 1]]
  /\ UNCHANGED <<cache, written, outsideSessions>>

\* lines 144-149
SessionLookup(s) ==
  /\ session[s].pc = "lookup"
  /\ \/ \* client.get raises: nothing catches it
        session' = [session EXCEPT ![s].pc = "raised", ![s].failure = "get"]
     \/ LET data == GetCache(cache, CacheKey(session[s].query), now)
        IN  session' = [session EXCEPT
                          ![s].cached_data = data,
                          ![s].pc = IF Truthy(data) THEN "returned" ELSE "crawl",
                          ![s].result = IF Truthy(data) THEN data.items ELSE <<>>]
  /\ UNCHANGED <<cache, written, outsideSessions>>

\* lines 151-211 as a whole: the strategies, the merge, the sort, the cut
SessionCrawl(s) ==
  /\ session[s].pc = "crawl"
  /\ \/ \* an exception reaches lines 216-218
        session' = [session EXCEPT ![s].pc = "returned", ![s].failure = "crawl"]
     \/ \E sorted \in CrawlResults(session[s].query) :
          session' = [session EXCEPT ![s].pc = "store", ![s].candidate_posts = sorted]
  /\ UNCHANGED <<cache, written, outsideSessions>>

\* lines 213-218; the locals are gone at the return
SessionStore(s) ==
  /\ session[s].pc = "store"
  /\ LET key == CacheKey(session[s].query)
         sorted == session[s].candidate_posts
     IN  \/ /\ cache' = SetCache(cache, key, PyList(sorted), now)
            /\ written' = [written EXCEPT ![key] = Append(@, sorted)]
            /\ session' = [session EXCEPT ![s].pc = "returned", ![s].result = sorted,
                                          ![s].candidate_posts = <<>>]
         \/ \* set_cache raises
            /\ session' = [session EXCEPT ![s].pc = "returned", ![s].failure = "set",
                                          ![s].candidate_posts = <<>>]
            /\ UNCHANGED <<cache, written>>
  /\ UNCHANGED outsideSessions

InitCalls ==
  /\ now = T0
  /\ cache = EmptyCache
  /\ pc = "idle"
  /\ query = NoQuery
  /\ cached_data = NoneVal
  /\ cutoff_date = 0
  /\ strat = <<>>
  /\ joined = 0
  /\ all_posts = <<>>
  /\ candidate_posts = <<>>
  /\ result = <<>>
  /\ failure = "none"
  /\ errors = 0
  /\ calls = 0
  /\ ticks = 0
  /\ collected = {}
  /\ stored_cutoff = [k \in CacheKeys |-> 0]
  /\ op = NoOp
  /\ shadow = NoShadow
  /\ puts = 0
  /\ responses = <<>>
  /\ workers = MaxWorkers
  /\ writes = 0
  /\ scan = NoScan
  /\ session = [s \in 1..MaxSessions |-> IdleSession]
  /\ written = [k \in SessionKeys |-> <<>>]
  /\ threads = <<>>
  /\ instance = NoneVal
  /\ constructed = 0

NextCalls ==
  \/ \E s \in 1..MaxSessions : \E q \in SessionQueries : SessionCall(s, q)
  \/ \E s \in 1..MaxSessions : SessionLookup(s)
  \/ \E s \in 1..MaxSessions : SessionCrawl(s)
  \/ \E s \in 1..MaxSessions : SessionStore(s)
  \/ Tick

SpecCalls == InitCalls /\ [][NextCalls]_vars

(***************************************************************************)
(* RedisClient.__new__: the client singleton, called from the threads of  *)
(* the UI sessions through set_cache, get_cache, delete_cache and main.   *)
(***************************************************************************)
\* the n-th redis.Redis object the process constructs
Client(n) == [type |-> "Redis", id |-> n]

IdleThread == [pc |-> "idle", obj |-> NoneVal, got |-> NoneVal, calls |-> 0]

\* RedisClient() is called
NewCall(t) ==
  /\ threads[t].pc = "idle"
  /\ threads[t].calls < MaxClientCalls
  /\ threads' = [threads EXCEPT ![t].pc = "check", ![t].calls = @ + 1]
  /\ UNCHANGED <<instance, constructed, outsideSingleton>>

\* line 13: if cls._instance is None
NewCheck(t) ==
  /\ threads[t].pc = "check"
  /\ threads' = [threads EXCEPT ![t].pc = IF instance = NoneVal THEN "construct"
                                          ELSE "return"]
  /\ UNCHANGED <<instance, constructed, outsideSingleton>>

\* lines 14-20, right-hand side: redis.Redis(...) builds a client
NewConstruct(t) ==
  /\ threads[t].pc = "construct"
  /\ constructed' = constructed + 1
  /\ threads' = [threads EXCEPT ![t].pc = "assign", ![t].obj = Client(constructed + 1)]
  /\ UNCHANGED <<instance, outsideSingleton>>

\* line 14, the store into cls._instance
NewAssign(t) ==
  /\ threads[t].pc = "assign"
  /\ instance' = threads[t].obj
  /\ threads' = [threads EXCEPT ![t].pc = "return", ![t].obj = NoneVal]
  /\ UNCHANGED <<constructed, outsideSingleton>>

\* line 21: return cls._instance
NewReturn(t) ==
  /\ threads[t].pc = "return"
  /\ threads' = [threads EXCEPT ![t].pc = "idle", ![t].got = instance]
  /\ UNCHANGED <<instance, constructed, outsideSingleton>>

InitSingleton ==
  /\ now = T0
  /\ cache = EmptyCache
  /\ pc = "idle"
  /\ query = NoQuery
  /\ cached_data = NoneVal
  /\ cutoff_date = 0
  /\ strat = <<>>
  /\ joined = 0
  /\ all_posts = <<>>
  /\ candidate_posts = <<>>
  /\ result = <<>>
  /\ failure = "none"
  /\ errors = 0
  /\ calls = 0
  /\ ticks = 0
  /\ collected = {}
  /\ stored_cutoff = [k \in CacheKeys |-> 0]
  /\ op = NoOp
  /\ shadow = NoShadow
  /\ puts = 0
  /\ responses = <<>>
  /\ workers = MaxWorkers
  /\ writes = 0
  /\ scan = NoScan
  /\ session = <<>>
  /\ written = <<>>
  /\ threads = [t \in 1..MaxThreads |-> IdleThread]
  /\ instance = NoneVal
  /\ constructed = 0

NextSingleton ==
  \/ \E t \in 1..MaxThreads : NewCall(t)
  \/ \E t \in 1..MaxThreads : NewCheck(t)
  \/ \E t \in 1..MaxThreads : NewConstruct(t)
  \/ \E t \in 1..MaxThreads : NewAssign(t)
  \/ \E t \in 1..MaxThreads : NewReturn(t)

SpecSingleton == InitSingleton /\ [][NextSingleton]_vars

(***************************************************************************)
(* The cache clients: the search functions and the UI use RedisClient     *)
(* under the keys of their queries.                                        *)
(***************************************************************************)
\* set_cache(cache_key, value) with the default TTL
CachePut(sig, v) ==
  /\ puts < MaxPuts
  /\ puts' = puts + 1
  /\ cache' = SetCache(cache, KeyOf(sig), PyList(v), now)
  /\ shadow' = [shadow EXCEPT ![sig] = [state |-> "stored", value |-> v, at |-> now]]
  /\ op' = [name |-> "put", sig |-> sig, value |-> PyList(v), at |-> now]
  /\ UNCHANGED <<now, orchVars, strat, ticks, collected, stored_cutoff, responses, workers,
                 sideVars>>

\* get_cache(cache_key)
CacheGet(sig) ==
  /\ op' = [name |-> "get", sig |-> sig, value |-> GetCache(cache, KeyOf(sig), now),
            at |-> now]
  /\ UNCHANGED <<now, cache, orchVars, strat, ticks, collected, stored_cutoff,
                 shadow, puts, responses, workers, sideVars>>

\* delete_cache(cache_key)
CacheInvalidate(sig) ==
  /\ cache' = DeleteCache(cache, KeyOf(sig))
  /\ shadow' = [shadow EXCEPT ![sig].state = IF @ = "never" THEN @ ELSE "invalidated"]
  /\ op' = [name |-> "invalidate", sig |-> sig, value |-> NoneVal, at |-> now]
  /\ UNCHANGED <<now, orchVars, strat, ticks, collected, stored_cutoff, puts,
                 responses, workers, sideVars>>

\* the "Clear API Cache" button of the UI
CacheFlush ==
  /\ cache' = FlushDb(cache)
  /\ shadow' = [sig \in DOMAIN shadow |->
                  [shadow[sig] EXCEPT !.state = IF @ = "never" THEN @ ELSE "flushed"]]
  /\ op' = [name |-> "flush", sig |-> NoQuery, value |-> NoneVal, at |-> now]
  /\ UNCHANGED <<now, orchVars, strat, ticks, collected, stored_cutoff, puts,
                 responses, workers, sideVars>>

InitCache ==
  /\ now = T0
  /\ cache = [k \in {KeyOf(sig) : sig \in Signatures} |-> NoneVal]
  /\ pc = "idle"
  /\ query = NoQuery
  /\ cached_data = NoneVal
  /\ cutoff_date = 0
  /\ strat = <<>>
  /\ joined = 0
  /\ all_posts = <<>>
  /\ candidate_posts = <<>>
  /\ result = <<>>
  /\ failure = "none"
  /\ errors = 0
  /\ calls = 0
  /\ ticks = 0
  /\ collected = {}
  /\ stored_cutoff = [k \in CacheKeys |-> 0]
  /\ op = NoOp
  /\ shadow = NoShadow
  /\ puts = 0
  /\ responses = <<>>
  /\ workers = MaxWorkers
  /\ writes = 0
  /\ SideIdle

NextCache ==
  \/ \E sig \in StoredSignatures : \E v \in CachedValues : CachePut(sig, v)
  \/ \E sig \in StoredSignatures : CacheGet(sig)
  \/ \E sig \in StoredSignatures : CacheInvalidate(sig)
  \/ CacheFlush
  \/ Tick

SpecCache == InitCache /\ [][NextCache]_vars

(***************************************************************************)
(* Properties.                                                             *)
(***************************************************************************)
Occurrences(posts, id) == Cardinality({k \in 1..Len(posts) : posts[k].id = id})

\* run_crawl has returned a sequence to its caller
HasReturned == pc = "returned"

\* the current call was served from the cache
CacheHit == HasReturned /\ cached_data # NoneVal /\ cached_data.items # <<>>

\* C1: the sequence run_crawl returns holds no id twice, and when the tasks
\* collected no more distinct ids than limit, every collected id is in it once
\* (a call that a raising task aborted merges nothing)
C1_DedupAndComplete ==
  (HasReturned /\ failure # "strategy") =>
    /\ \A id \in PostIdsOf(result) : Occurrences(result, id) = 1
    /\ Cardinality(collected) <= query.limit =>
         \A id \in collected : Occurrences(result, id) = 1

\* C2: run_crawl returns at most limit items, on a cache hit and on a miss,
\* and no task collects more than limit
C2_LimitBound ==
  /\ HasReturned => Len(result) <= query.limit
  /\ \A i \in Futures : Len(strat[i].batch_posts) <= query.limit

\* the merge held more distinct ids than limit and the result is cut to limit
C2_Witness ==
  /\ HasReturned
  /\ query.limit >= 1
  /\ Cardinality(collected) > query.limit
  /\ Len(result) = query.limit

C3_NothingBeforeCutoff ==
  /\ \A i \in Futures : \A k \in 1..Len(strat[i].batch_posts) :
       strat[i].batch_posts[k].created_utc >= cutoff_date
  /\ \A k \in 1..Len(all_posts) : all_posts[k].created_utc >= cutoff_date
  /\ HasReturned =>
       \A k \in 1..Len(result) :
         result[k].created_utc >=
           IF CacheHit THEN stored_cutoff[CacheKey(query)] ELSE cutoff_date

\* C3: the cutoff of a crawl is the time at its start minus time_range_days
\* days; no task holds a post created before it, and every returned item was
\* created at or after the cutoff of the crawl that found it (the current one,
\* or on a cache hit the one that stored the entry)
C3_CutoffCorrect ==
  /\ []C3_NothingBeforeCutoff
  /\ [][(pc = "crawl" /\ pc' = "join") =>
         cutoff_date' = now - query.time_range_days * 86400]_vars

\* a fresh crawl returned a post created exactly on its cutoff, which is the
\* start of the crawl minus time_range_days days
C3_Witness ==
  /\ HasReturned
  /\ ~CacheHit
  /\ result # <<>>
  /\ cutoff_date = T0 - query.time_range_days * 86400
  /\ \E k \in 1..Len(result) : result[k].created_utc = cutoff_date

\* C4: no task holds a post whose score is below the query's threshold, and
\* every returned item has a score at or above it
C4_ScoreFilter ==
  /\ \A i \in Futures : \A k \in 1..Len(strat[i].batch_posts) :
       strat[i].batch_posts[k].score >= query.min_upvotes
  /\ HasReturned => \A k \in 1..Len(result) : result[k].score >= query.min_upvotes

\* a strict query returned a post whose score is exactly the threshold
C4_Witness ==
  /\ HasReturned
  /\ query.min_upvotes = 51
  /\ \E k \in 1..Len(result) : result[k].score = 51

\* C5: a call whose lookup finds the value an earlier call stored (the entry
\* is within its TTL) returns that value and starts no strategy
C5_SecondCallFromCache ==
  (pc \in {"crawl", "join", "returned"} /\ failure # "get" /\ cached_data # NoneVal) =>
    /\ pc = "returned"
    /\ strat = <<>>
    /\ collected = {}
    /\ result = cached_data.items

\* C6: no exception crosses the run_crawl boundary
C6_NeverRaises == pc # "raised"

\* C7: when the cache store fails on get or on set, the call still returns the
\* merged, sorted, truncated result of its crawl
C7_CacheFailureIsAMiss ==
  failure \in {"get", "set"} =>
    /\ pc # "raised"
    /\ HasReturned => result = candidate_posts

\* C8: the strategies are those of the table, in its order, and run_crawl
\* submits exactly them on a miss, each task started once
C8_StrategyTable(d) ==
  IF d = 1 THEN << <<"top", "day">> >>
  ELSE IF d = 7 THEN << <<"top", "week">> >>
  ELSE IF d = 30 THEN << <<"top", "month">>, <<"hot", "null">>, <<"new", "null">> >>
  ELSE << <<"new", "null">> >>

C8_StrategySelection ==
  /\ \A d \in 1..30 : SelectStrategies(d) = C8_StrategyTable(d)
  /\ pc = "join" =>
       /\ Len(strat) = Len(C8_StrategyTable(query.time_range_days))
       /\ \A i \in Futures :
            /\ <<strat[i].sort_type, strat[i].time_filter>> =
                 C8_StrategyTable(query.time_range_days)[i]
            /\ strat[i].starts = IF strat[i].state = "pending" THEN 0 ELSE 1

\* the three tasks of a 30-day query have run and been collected, each once
C8_Witness ==
  /\ pc = "join"
  /\ query.time_range_days = 30
  /\ joined = 3
  /\ \A i \in Futures : strat[i].starts = 1

\* the cap on consecutive empty-or-invalid pages
C9_Cap == IF query.min_upvotes <= 50 THEN 6 ELSE 5

\* C9: the streak of empty-or-invalid pages never passes the cap (6 lenient, 5
\* strict), the loop is over once it is reached, and a crawler that has seen
\* only empty, failed or out-of-window pages has fetched at most that many
C9_ExhaustionStop ==
  \A i \in Futures :
    /\ strat[i].no_valid_count <= C9_Cap
    /\ strat[i].no_valid_count = C9_Cap =>
         ~LoopGuard(strat[i], query.min_upvotes, query.limit)
    /\ strat[i].only_invalid => strat[i].fetches <= C9_Cap

\* a lenient crawler stopped by six pages none of which had an in-window post,
\* one of them not empty
C9_Witness ==
  \E i \in Futures :
    /\ strat[i].state = "running"
    /\ query.min_upvotes <= 50
    /\ strat[i].only_invalid
    /\ strat[i].fetches = 6
    /\ strat[i].after # "None"
    /\ Len(strat[i].batch_posts) < query.limit
    /\ ~LoopGuard(strat[i], query.min_upvotes, query.limit)

\* the cap on iterations
C10_Cap == IF query.min_upvotes <= 50 THEN 60 ELSE 30

C10_Bounded ==
  \A i \in Futures :
    /\ strat[i].fetches <= C10_Cap
    /\ strat[i].safety_counter = strat[i].fetches
    /\ strat[i].fetches = C10_Cap =>
         ~LoopGuard(strat[i], query.min_upvotes, query.limit)

\* C10: a crawler fetches at most 60 pages (lenient) or 30 (strict), every
\* iteration counting whatever its page was, and it reaches DONE
C10_IterationCap ==
  /\ []C10_Bounded
  /\ <>(\A i \in Futures : strat[i].state = "done")

\* a lenient crawler at its 60th fetch with nothing collected and the streak
\* of invalid pages short of its cap
C10_Witness ==
  \E i \in Futures :
    /\ query.min_upvotes <= 50
    /\ strat[i].fetches = 60
    /\ strat[i].batch_posts = <<>>
    /\ strat[i].no_valid_count < 6

\* C11: the sequence a fresh crawl returns is in non-increasing order of score
C11_SortedByScore ==
  (HasReturned /\ ~CacheHit) =>
    \A k \in 1..(Len(result) - 1) : result[k].score >= result[k + 1].score

\* a fresh crawl of three strategies returned two posts of different scores
C11_Witness ==
  /\ HasReturned
  /\ ~CacheHit
  /\ query.time_range_days = 30
  /\ Len(result) = 2
  /\ result[1].score > result[2].score

\* C12: a call that met a query-level failure (the client cannot be built,
\* the source rejects the target or the credentials, a task raised) returns
\* the empty sequence and has reported exactly one error
C12_QueryFailureReported ==
  (HasReturned /\ failure \in {"reddit", "source", "strategy"}) =>
    /\ result = <<>>
    /\ errors = 1

\* the pages of fixed answers, a failed call being an empty page
RECURSIVE PagesOf(_)
PagesOf(script) ==
  IF script = <<>> THEN <<>> ELSE <<Head(script).posts>> \o PagesOf(Tail(script))

\* what strategy i returns when it runs alone against its answers
AloneBatch(i) ==
  CrawlLoop(NewTask(SelectStrategies(query.time_range_days)[i]), PagesOf(responses[i]),
            cutoff_date, query.min_upvotes, query.limit).batch_posts

RECURSIVE MergedUpTo(_)
MergedUpTo(n) == IF n = 0 THEN <<>> ELSE MergeBatch(MergedUpTo(n - 1), AloneBatch(n))

\* C14: whatever the interleaving of the tasks' steps, the order in which
\* they end and the number of threads, a call that ends without a failure
\* returns the sorted, truncated merge, in submission order, of what each
\* strategy returns alone against its answers
C14_SameForEveryInterleaving ==
  (HasReturned /\ failure = "none") =>
    result = CandidatePosts(MergedUpTo(Len(responses)), query.limit)

\* two strategies collected the same id under different scores, ran on a
\* pool of three threads, and the call returned both ids
C14_Witness ==
  /\ HasReturned
  /\ failure = "none"
  /\ workers = 3
  /\ Len(result) = 2
  /\ \E i \in 1..Len(responses) : \E j \in 1..Len(responses) :
       /\ i < j
       /\ AloneBatch(i) # <<>> /\ AloneBatch(j) # <<>>
       /\ AloneBatch(i)[1].id = AloneBatch(j)[1].id
       /\ AloneBatch(i)[1].score # AloneBatch(j)[1].score

\* task i has made one more page fetch in this step
Fetched(i) == strat'[i].fetches = strat[i].fetches + 1

C13_AllFailedEmpty ==
  \A i \in Futures :
    (strat[i].state = "running" /\ strat[i].all_raised) => strat[i].batch_posts = <<>>

C13_Step ==
  \A i \in Futures :
    /\ (Fetched(i) /\ strat'[i].last.fetch = "raised") =>
         /\ strat'[i].state = "running"
         /\ strat'[i].no_valid_count = strat[i].no_valid_count + 1
         /\ strat'[i].batch_posts = strat[i].batch_posts
    /\ (strat[i].state = "running" /\ strat'[i].state = "done" /\ strat[i].all_raised) =>
         strat'[i].batch_posts = <<>>

\* C13: a fetch that raises leaves the crawler running with the items it had
\* and its streak of empty-or-invalid pages one longer; a crawler whose
\* every fetch raised holds, and returns, the empty sequence
C13_FetchFailureAbsorbed ==
  /\ []C13_AllFailedEmpty
  /\ [][C13_Step]_vars

\* a crawler that had collected an item when a fetch raised
C13_Witness ==
  \E i \in Futures :
    /\ strat[i].state = "running"
    /\ strat[i].last.fetch = "raised"
    /\ strat[i].batch_posts # <<>>
    /\ strat[i].no_valid_count = 1

C19_ResetByAnyInWindow ==
  [][\A i \in Futures :
       Fetched(i) =>
         strat'[i].no_valid_count =
           IF strat'[i].last.any_in_window THEN 0 ELSE strat[i].no_valid_count + 1]_vars

\* C19 amended: the streak is reset by an in-window item that no
\* out-of-window item precedes in the page (the scan of a page ends at its
\* first out-of-window item), whether or not the item passes the score
\* filter, and is one longer after any other page, an empty one included
C19_ResetByScannedInWindow ==
  [][\A i \in Futures :
       Fetched(i) =>
         strat'[i].no_valid_count =
           IF strat'[i].last.lead_in_window THEN 0 ELSE strat[i].no_valid_count + 1]_vars

\* the streak is reset after a page whose in-window items all fail the score
\* filter
C19_Witness ==
  \E i \in Futures :
    /\ strat[i].fetches >= 2
    /\ strat[i].last.lead_in_window
    /\ strat[i].batch_posts = <<>>
    /\ strat[i].no_valid_count = 0

C20_Sized ==
  \A i \in Futures :
    /\ strat[i].fetches > 0 => strat[i].current_limit \in 1..100
    /\ Len(strat[i].batch_posts) >= query.limit =>
         ~LoopGuard(strat[i], query.min_upvotes, query.limit)
    /\ query.limit <= 0 => strat[i].fetches = 0

C20_Step ==
  \A i \in Futures :
    Fetched(i) =>
      /\ Len(strat[i].batch_posts) < query.limit
      /\ strat'[i].current_limit =
           IF query.limit - Len(strat[i].batch_posts) < 100
           THEN query.limit - Len(strat[i].batch_posts) ELSE 100

\* C20: every page request asks for min(100, limit - collected) items, which
\* is between 1 and 100; no request is made once collected >= limit
C20_PageSize ==
  /\ []C20_Sized
  /\ [][C20_Step]_vars

\* a request cut to 100 when 101 items were missing, and later ones for less
C20_Witness ==
  \E i \in Futures :
    /\ query.limit = 101
    /\ strat[i].fetches >= 3
    /\ strat[i].current_limit = 99
    /\ Len(strat[i].batch_posts) = 2

C21_Step ==
  \A i \in Futures :
    Fetched(i) =>
      IF strat'[i].last.fetch = "page"
      THEN strat'[i].after = strat'[i].last.tail
      ELSE /\ strat'[i].after = strat[i].after
           /\ strat'[i].batch_posts = strat[i].batch_posts
           /\ CurrentLimit(strat'[i], query.limit) = strat'[i].current_limit

\* C21: after a page with items the cursor is the token of the page's last raw
\* item, scanned or not; after an empty or failed page the cursor and the
\* collected items are as before, so the next request carries the cursor and
\* the page size of the one just made
C21_CursorAdvance == [][C21_Step]_vars

\* the scan of a page stopped at its first item, which is out of window, and
\* the cursor is the token of the in-window item behind it
C21_Witness ==
  \E i \in Futures :
    /\ strat[i].fetches >= 2
    /\ strat[i].last.fetch = "page"
    /\ strat[i].last.any_in_window
    /\ ~strat[i].last.lead_in_window
    /\ strat[i].after = strat[i].last.tail

\* the position of the first out-of-window item of the page, or one past its end
FirstOut(posts, c) ==
  IF \E j \in 1..Len(posts) : ~InWindow(posts[j], c)
  THEN CHOOSE j \in 1..Len(posts) :
         /\ ~InWindow(posts[j], c)
         /\ \A h \in 1..(j - 1) : InWindow(posts[h], c)
  ELSE Len(posts) + 1

\* the posts among the first n of the page that pass the score filter
RECURSIVE Passing(_, _, _)
Passing(posts, n, m) ==
  IF n = 0 THEN <<>>
  ELSE Passing(posts, n - 1, m) \o
         (IF posts[n].score >= m THEN <<PostData(posts[n])>> ELSE <<>>)

C27_Collected ==
  LET first == FirstOut(scan.posts, scan.cutoff_date)
  IN  /\ scan.k <= first
      /\ scan.broke <=> (scan.k = first)
      /\ scan.batch_posts =
           scan.prior \o Passing(scan.posts, Min(scan.k, first - 1), scan.min_upvotes)
      /\ (scan.broke \/ scan.k = Len(scan.posts)) =>
           ScanPosts(scan.posts, 1, scan.prior, FALSE, <<>>, scan.cutoff_date,
                     scan.min_upvotes) =
             [batch_posts |-> scan.batch_posts, batch_has_valid |-> scan.batch_has_valid]

C27_Step ==
  (scan'.k = scan.k + 1 /\ scan'.posts[scan'.k].created_utc < scan'.cutoff_date) =>
    /\ scan'.batch_oldest[1] <= scan'.posts[scan'.k].created_utc
    /\ scan'.batch_oldest[1] < scan'.cutoff_date
    /\ scan'.broke
    /\ scan'.batch_posts = scan.batch_posts

\* C27: the scan of a page ends at its first out-of-window item (the running
\* oldest time includes that item, so the test of line 106 is true there);
\* what the scan collects is the posts before that item that pass the score
\* filter, and nothing behind it; the crawler's page scan gives the same
C27_EarlyExit ==
  /\ []C27_Collected
  /\ [][C27_Step]_vars

\* the scan collected a post, met an out-of-window item and left the page with
\* a post behind it that is in the window and passes the score filter
C27_Witness ==
  /\ scan.broke
  /\ scan.batch_posts # scan.prior
  /\ \E j \in (scan.k + 1)..Len(scan.posts) :
       /\ scan.posts[j].created_utc >= scan.cutoff_date
       /\ scan.posts[j].score >= scan.min_upvotes

\* C26: over every interleaving of the threads that call RedisClient(), one
\* client is constructed, and every call returns that same client
C26_ConstructedOnce ==
  /\ constructed <= 1
  /\ \A t \in DOMAIN threads :
       /\ threads[t].got # NoneVal => threads[t].got = Client(1)
       /\ threads[t].calls > 0 /\ threads[t].pc = "idle" => threads[t].got # NoneVal

\* the copy of an id that comes first in the batches of the strategies 1..n,
\* taken in the order of the strategy list and, in a batch, in arrival order
FirstCopy(id, n) ==
  LET i == CHOOSE i \in 1..n :
             /\ HasId(AloneBatch(i), id)
             /\ \A h \in 1..(i - 1) : ~HasId(AloneBatch(h), id)
      k == CHOOSE k \in 1..Len(AloneBatch(i)) :
             /\ AloneBatch(i)[k].id = id
             /\ \A h \in 1..(k - 1) : AloneBatch(i)[h].id # id
  IN  AloneBatch(i)[k]

\* C28: the merge holds, for every id the consumed strategies collected, the
\* copy of the earliest strategy of the list that collected it (the first one
\* of that strategy's batch), whatever the order in which the tasks ended;
\* the call returns those copies
C28_KeptCopy ==
  /\ pc = "join" =>
       /\ \A k \in 1..Len(all_posts) : all_posts[k] = FirstCopy(all_posts[k].id, joined)
       /\ \A i \in 1..joined : \A k \in 1..Len(AloneBatch(i)) :
            HasId(all_posts, AloneBatch(i)[k].id)
  /\ (HasReturned /\ failure = "none") =>
       \A k \in 1..Len(result) : result[k] = FirstCopy(result[k].id, Len(responses))

\* two strategies collected an id under different scores, the later one of
\* the list ended first, and the call returned the copy of the earlier one
C28_Witness ==
  /\ HasReturned
  /\ failure = "none"
  /\ \E i \in Futures : \E j \in Futures : \E k \in 1..Len(result) :
       /\ i < j
       /\ strat[j].rank < strat[i].rank
       /\ HasId(AloneBatch(i), result[k].id)
       /\ HasId(AloneBatch(j), result[k].id)
       /\ FirstCopy(result[k].id, i) # AloneBatch(j)[1]
       /\ AloneBatch(j)[1].id = result[k].id
       /\ result[k] = FirstCopy(result[k].id, i)

C29_Joined ==
  HasReturned => \A i \in Futures : strat[i].state \in {"done", "failed", "joined"}

C29_Step ==
  /\ all_posts' # all_posts =>
       /\ pc = "join"
       /\ \/ pc' = "returned" /\ all_posts' = <<>>
          \/ /\ joined' = joined + 1
             /\ strat[joined'].state = "done"
             /\ all_posts' = MergeBatch(all_posts, strat[joined'].batch_posts)
  /\ \A i \in Futures :
       (strat[i].state = "running" /\ strat'[i] # strat[i]) =>
         UNCHANGED <<all_posts, joined, pc, result>>

\* C29: when run_crawl has returned, normally or after a task raised, every
\* task it submitted has ended; the merged set changes only in the steps of
\* the orchestrator, which adds the whole batch of a task that has returned,
\* and no step of a running task changes it
C29_JoinBeforeReturn ==
  /\ []C29_Joined
  /\ [][C29_Step]_vars

\* run_crawl returned through its error path, and a task ended after the one
\* that raised
C29_Witness ==
  /\ HasReturned
  /\ failure = "strategy"
  /\ \E i \in Futures : \E j \in Futures :
       /\ strat[i].state = "failed"
       /\ \A h \in 1..(i - 1) : strat[h].state # "failed"
       /\ strat[j].state = "done"
       /\ strat[j].rank > strat[i].rank

\* the step in which run_crawl, every future consumed, sorts, truncates,
\* stores and returns
FinishStep == pc = "join" /\ joined = Len(strat) /\ pc' = "returned"

\* C23: the call that consumed every future returns min(limit, D) items, D the
\* number of distinct ids the strategies collected; they are items of the
\* merge, and every item of the merge left out has a score at or below the
\* score of every returned item
C23_TopLimit ==
  [][FinishStep =>
       /\ PostIdsOf(all_posts) = collected
       /\ Len(result') = Min(query.limit, Cardinality(collected))
       /\ \A j \in 1..Len(result') : \E k \in 1..Len(all_posts) : result'[j] = all_posts[k]
       /\ \A k \in 1..Len(all_posts) :
            (\A j \in 1..Len(result') : result'[j] # all_posts[k]) =>
              \A j \in 1..Len(result') : result'[j].score >= all_posts[k].score]_vars

\* the entry under the key of the current query
Entry == cache[CacheKey(query)]

C24_State ==
  /\ (pc \in {"crawl", "join", "returned"} /\ failure # "get" /\ cached_data # NoneVal) =>
       /\ pc = "returned"
       /\ strat = <<>>
       /\ writes = 0
  /\ (HasReturned /\ cached_data = NoneVal /\ failure \notin {"reddit", "strategy"}) =>
       writes = 1

C24_Step ==
  (cache' # cache /\ ticks' = ticks) =>
    /\ pc = "join"
    /\ joined = Len(strat)
    /\ \A i \in Futures : strat[i].state = "joined"
    /\ writes' = 1
    /\ \A k \in DOMAIN cache : k # CacheKey(query) => cache'[k] = cache[k]
    /\ JsonLoads(cache'[CacheKey(query)].data).items = result'

\* C24: a call whose lookup finds an entry returns without a strategy and
\* without a cache write; a call whose lookup finds none, and whose crawl is
\* not aborted, writes the entry of its key once, after every future has
\* been consumed, and the value written is the value it returns
C24_Order ==
  /\ []C24_State
  /\ [][C24_Step]_vars

C30_State ==
  (HasReturned /\ errors >= 1) =>
    /\ errors = 1
    /\ result = <<>>
    /\ writes = 0

C30_Step ==
  /\ errors' > errors => cache' = cache
  /\ (cache' # cache /\ ticks' = ticks) =>
       /\ pc' = "returned"
       /\ errors' = 0
       /\ JsonLoads(cache'[CacheKey(query)].data).items = result'

\* C30: the step in which a call reports its error changes no cache entry,
\* and a call that has ended with a reported error has returned the empty
\* sequence and stored nothing; the step that writes an entry is the return of
\* a call that reported no error, so no entry holds the result of a failed call
C30_NoWriteOnError ==
  /\ []C30_State
  /\ [][C30_Step]_vars

\* the second call of a query ended in its error path after a task had
\* returned a post, and the entry the first call stored is as it was
C30_Witness ==
  /\ HasReturned
  /\ calls = 2
  /\ errors = 1
  /\ collected # {}
  /\ writes = 0
  /\ Entry # NoneVal
  /\ Entry.expires_at = T0 + REDIS_EXPIRE_SECONDS

\* C22: an entry that is present and within its TTL stays as it is, value
\* and expiry, in every step of every session, until its TTL has elapsed
C22_ReadOnly ==
  [][\A k \in DOMAIN cache :
       (cache[k] # NoneVal /\ cache[k].expires_at > now) =>
         \/ cache'[k] = cache[k]
         \/ cache'[k] = NoneVal /\ cache[k].expires_at <= now']_vars

Last(seq) == seq[Len(seq)]

C25_State ==
  /\ \A s \in DOMAIN session :
       session[s].cached_data # NoneVal =>
         \E n \in 1..Len(written[CacheKey(session[s].query)]) :
           session[s].cached_data = PyList(written[CacheKey(session[s].query)][n])
  /\ \A k \in DOMAIN written :
       cache[k] # NoneVal =>
         /\ written[k] # <<>>
         /\ JsonLoads(cache[k].data) = PyList(Last(written[k]))

C25_Step ==
  \A s \in DOMAIN session :
    (session[s].pc = "lookup" /\ session'[s].pc \in {"crawl", "returned"}) =>
      \/ session'[s].cached_data = NoneVal
      \/ /\ written[CacheKey(session[s].query)] # <<>>
         /\ session'[s].cached_data = PyList(Last(written[CacheKey(session[s].query)]))

\* C25: what a lookup reads is 'absent' or the whole value of one store of
\* its key, the last one made before the read, and an entry that is present
\* holds the whole value of the last store of its key
C25_LastWriterWins ==
  /\ []C25_State
  /\ [][C25_Step]_vars

\* two calls for one key both missed, crawled at the same time and stored
\* different values; the entry holds the value stored last
C25_Witness ==
  /\ ticks = 0
  /\ session[1].pc = "returned" /\ session[2].pc = "returned"
  /\ session[1].query = session[2].query
  /\ session[1].calls = 1 /\ session[2].calls = 1
  /\ session[1].cached_data = NoneVal /\ session[2].cached_data = NoneVal
  /\ session[1].result # <<>> /\ session[2].result # <<>>
  /\ session[1].result # session[2].result
  /\ written[CacheKey(session[1].query)] = <<session[1].result, session[2].result>>
  /\ JsonLoads(cache[CacheKey(session[1].query)].data).items = session[2].result

\* the signature's entry is stored and its TTL has not elapsed at time t
LiveAt(sig, t) ==
  shadow[sig].state = "stored" /\ t < shadow[sig].at + REDIS_EXPIRE_SECONDS

\* C15: a get within the TTL of the latest put of its key returns the sequence
\* that was put, the empty sequence included, and never the 'absent' value
C15_RoundTrip ==
  (op.name = "get" /\ LiveAt(op.sig, op.at)) =>
    /\ op.value # NoneVal
    /\ op.value = PyList(shadow[op.sig].value)

\* an empty sequence was put, time passed, and the get returned an empty list
C15_Witness ==
  /\ op.name = "get"
  /\ LiveAt(op.sig, op.at)
  /\ shadow[op.sig].value = <<>>
  /\ op.at > shadow[op.sig].at
  /\ op.value = PyList(<<>>)

KeysInjective ==
  \A s1 \in Signatures : \A s2 \in Signatures : (KeyOf(s1) = KeyOf(s2)) <=> (s1 = s2)

\* C16: equal signatures give equal keys and different signatures different
\* keys, so the live entry under a query's key is what that query stored
C16_KeyInjective ==
  /\ KeysInjective
  /\ \A sig \in StoredSignatures :
       LiveAt(sig, now) =>
         /\ cache[KeyOf(sig)] # NoneVal
         /\ JsonLoads(cache[KeyOf(sig)].data).items = shadow[sig].value

\* two queries that differ only in limit hold different values at the same
\* time, and a get of the first returns its own
C16_Witness ==
  \E s1 \in StoredSignatures : \E s2 \in StoredSignatures :
    /\ s1.limit # s2.limit
    /\ [s1 EXCEPT !.limit = s2.limit] = s2
    /\ LiveAt(s1, now) /\ LiveAt(s2, now)
    /\ shadow[s1].value # shadow[s2].value
    /\ op.name = "get" /\ op.sig = s1 /\ op.value = PyList(shadow[s1].value)

C18_Absent ==
  (op.name = "get" /\ ~LiveAt(op.sig, op.at)) => op.value = NoneVal

C18_InvalidateFrame ==
  (ticks' = ticks /\ op'.name = "invalidate") =>
    \A k \in DOMAIN cache : k # KeyOf(op'.sig) => cache'[k] = cache[k]

\* C18: get returns 'absent' for a key never put, for one whose latest put is
\* REDIS_EXPIRE_SECONDS or more old, and for one invalidated or flushed since;
\* invalidate changes no other key's entry
C18_AbsentAfterRemoval ==
  /\ []C18_Absent
  /\ [][C18_InvalidateFrame]_vars

\* a get at the very second the TTL of the key's entry ran out, while another
\* key has been invalidated
C18_Witness ==
  /\ op.name = "get"
  /\ shadow[op.sig].state = "stored"
  /\ op.at = shadow[op.sig].at + REDIS_EXPIRE_SECONDS
  /\ op.value = NoneVal
  /\ \E sig \in StoredSignatures : shadow[sig].state = "invalidated"

====
